---- MODULE Spec2Model ----
(***************************************************************************)
(* Incremental snapshot-to-event reconciliation of process_data.py.        *)
(*                                                                         *)
(* The snapshot store (data/history/**/*.json) is a set of snapshot files, *)
(* each named by a sortable key.  The output artifact (public/outages.json)*)
(* is both the checkpoint and the event list.  One run of main() loads the *)
(* artifact, finds the files after the checkpoint, folds them in order     *)
(* and rewrites the artifact in place.                                     *)
(*                                                                         *)
(* Keys and timestamps are the naturals 1..MaxKey: capture.py derives the  *)
(* file name and the "timestamp" field of a snapshot from the same clock   *)
(* reading, so the timestamp of the snapshot with key k is k.              *)
(* An optional value (Python None / a missing file) is the empty           *)
(* sequence, a present value v is <<v>>.                                   *)
(*                                                                         *)
(* rebuild_video.py, which appends the captured frames to the master       *)
(* video, is modelled beside it in the variable video.                     *)
(***************************************************************************)
EXTENDS Integers, Sequences, FiniteSets, TLC

\* ---- bounds of the model ------------------------------------------------
MaxKey == 3
MaxPayload == 2

Ids == {"A", "B"}
\* A detail payload is opaque and compared structurally; 0 stands for "no
\* payload for this id" (missing or falsy entry of detailedOutageInfo).
Payloads == 1..MaxPayload

VARIABLES
    store,      \* the snapshot files present in data/history
    clock,      \* key of the newest snapshot ever captured
    artifact,   \* contents of public/outages.json
    pc,         \* "idle", or "writing" while main() is inside json.dump
    mem,        \* new_files and events of the run that is writing
    run,        \* what the last invocation of main() did
    stamp,      \* a "timestamp" string on its way through the normalisation
    video       \* frames/, outages.mp4 and the position of rebuild_video.py

vars == <<store, clock, artifact, pc, mem, run, stamp, video>>

None == <<>>
Some(v) == <<v>>

\* ---- sequences ----------------------------------------------------------
Range(s) == {s[i] : i \in DOMAIN s}

Last(s) == s[Len(s)]

Reverse(s) == [i \in 1..Len(s) |-> s[Len(s) + 1 - i]]

\* All sequences without repetition over the set S.
RECURSIVE Perms(_)
Perms(S) ==
    IF S = {} THEN {<<>>}
    ELSE UNION {{<<x>> \o p : p \in Perms(S \ {x})} : x \in S}

ActiveLists == UNION {Perms(T) : T \in SUBSET Ids}

\* ---- snapshot files -----------------------------------------------------
\* ok = FALSE is a file json.load cannot parse.  active is the list
\* rawFrontendInitData.outageList.active (names only); details is
\* detailedOutageInfo, which capture.py fills for active outages only;
\* others are the ids of the entities that outageList holds outside its
\* "active" sublist (planned or scheduled outages).
Snapshot(k, ok, active, details) ==
    [key |-> k, ok |-> ok, active |-> active, details |-> details, others |-> {}]

DetailMaps(active) ==
    {d \in [Ids -> {0} \cup Payloads] : \A i \in Ids : i \notin Range(active) => d[i] = 0}

SnapshotsAt(k) ==
    {Snapshot(k, TRUE, a[1], a[2]) :
        a \in {b \in ActiveLists \X [Ids -> {0} \cup Payloads] : b[2] \in DetailMaps(b[1])}}
    \cup {Snapshot(k, FALSE, <<>>, [i \in Ids |-> 0])}

\* the snapshots that also list entities outside "active"
SnapshotsAllAt(k) ==
    {[s EXCEPT !.others = o] :
        s \in {t \in SnapshotsAt(k) : t.ok}, o \in SUBSET Ids}
    \cap {s \in [key : {k}, ok : {TRUE}, active : ActiveLists,
                  details : [Ids -> {0} \cup Payloads], others : SUBSET Ids] :
              s.others \cap Range(s.active) = {}}

FileAt(files, k) == CHOOSE s \in files : s.key = k

\* sorted(glob.glob(...)): the keys of the store in ascending order.
RECURSIVE SortedKeys(_)
SortedKeys(K) ==
    IF K = {} THEN <<>>
    ELSE LET m == CHOOSE x \in K : \A y \in K : x <= y
         IN <<m>> \o SortedKeys(K \ {m})

\* (mutant) the listing is not sorted: glob happens to yield newest first
AllFilesUnsorted(files) == Reverse(SortedKeys({s.key : s \in files}))

AllFiles(files) == SortedKeys({s.key : s \in files})

\* ---- events -------------------------------------------------------------
\* The in-memory events dict: keys is the insertion order, val the mapping.
EmptyEvents == [keys |-> <<>>, val |-> <<>>]

HasEvent(events, id) == id \in Range(events.keys)

\* events[id] = ev (a new key goes last, as in a Python dict).
PutEvent(events, id, ev) ==
    [keys |-> IF HasEvent(events, id) THEN events.keys ELSE Append(events.keys, id),
     val  |-> [x \in Range(events.keys) \cup {id} |->
                  IF x = id THEN ev ELSE events.val[x]]]

\* normalisation of data["timestamp"]; the timestamp of snapshot k is k
Timestamp(snap) == snap.key

NewEvent(id, ts) ==
    [id |-> id, start |-> ts, end |-> None, detail_history |-> <<>>]

\* (mutant) appends every payload, equal to the last entry or not
AppendAlways(history, ts, details) ==
    IF details = 0 THEN history
    ELSE Append(history, [capture_ts |-> ts, details |-> details])

\* (mutant) compares with the first entry of the history, not the last
AppendIfNotFirst(history, ts, details) ==
    IF details = 0 THEN history
    ELSE IF history # <<>> /\ history[1].details = details THEN history
    ELSE Append(history, [capture_ts |-> ts, details |-> details])

\* history accumulator: append (ts, details) unless equal to the last entry
AppendIfChanged(history, ts, details) ==
    IF details = 0 THEN history
    ELSE IF history # <<>> /\ Last(history).details = details THEN history
    ELSE Append(history, [capture_ts |-> ts, details |-> details])

\* (mutant) an id whose event has ended gets a fresh event
FoldOutageReopen(events, id, snap) ==
    LET ts == Timestamp(snap)
        created == IF HasEvent(events, id) /\ events.val[id].end = None THEN events
                   ELSE PutEvent(events, id, NewEvent(id, ts))
        ev == created.val[id]
        h  == AppendIfChanged(ev.detail_history, ts, snap.details[id])
    IN PutEvent(created, id, [ev EXCEPT !.detail_history = h])

\* body of the loop over active_outages for one outage
FoldOutage(events, id, snap) ==
    LET ts == Timestamp(snap)
        created == IF HasEvent(events, id) THEN events
                   ELSE PutEvent(events, id, NewEvent(id, ts))
        ev == created.val[id]
        h  == AppendIfChanged(ev.detail_history, ts, snap.details[id])
    IN PutEvent(created, id, [ev EXCEPT !.detail_history = h])

RECURSIVE FoldActive(_, _, _)
FoldActive(events, snap, i) ==
    IF i > Len(snap.active) THEN events
    ELSE FoldActive(FoldOutage(events, snap.active[i], snap), snap, i + 1)

\* (mutant) sets end without testing that it is still None
FinishOverwrite(events, prev, snap) ==
    LET finished == prev \ Range(snap.active)
    IN [events EXCEPT !.val =
          [x \in DOMAIN events.val |->
              IF x \in finished
              THEN [events.val[x] EXCEPT !.end = Some(Timestamp(snap))]
              ELSE events.val[x]]]

\* finished_outages: were active before, are not now
FinishOutages(events, prev, snap) ==
    LET finished == prev \ Range(snap.active)
    IN [events EXCEPT !.val =
          [x \in DOMAIN events.val |->
              IF x \in finished /\ events.val[x].end = None
              THEN [events.val[x] EXCEPT !.end = Some(Timestamp(snap))]
              ELSE events.val[x]]]

FoldSnapshot(events, prev, snap) ==
    FinishOutages(FoldActive(events, snap, 1), prev, snap)

\* (mutant) skips a file that does not parse and folds the rest
RECURSIVE FoldFilesSkip(_, _, _, _, _)
FoldFilesSkip(files, new_files, i, events, prev) ==
    IF i > Len(new_files) THEN [ok |-> TRUE, events |-> events]
    ELSE LET snap == FileAt(files, new_files[i])
         IN IF ~snap.ok THEN FoldFilesSkip(files, new_files, i + 1, events, prev)
            ELSE FoldFilesSkip(files, new_files, i + 1,
                               FoldSnapshot(events, prev, snap), Range(snap.active))

\* (mutant) previously_active_ids is not advanced to current_active_ids
RECURSIVE FoldFilesStalePrev(_, _, _, _, _)
FoldFilesStalePrev(files, new_files, i, events, prev) ==
    IF i > Len(new_files) THEN [ok |-> TRUE, events |-> events]
    ELSE LET snap == FileAt(files, new_files[i])
         IN IF ~snap.ok THEN [ok |-> FALSE, events |-> events]
            ELSE FoldFilesStalePrev(files, new_files, i + 1,
                                    FoldSnapshot(events, prev, snap), prev)

\* The loop of process_files over new_files[i..]; a file that does not
\* parse raises out of the loop (ok = FALSE).
RECURSIVE FoldFiles(_, _, _, _, _)
FoldFiles(files, new_files, i, events, prev) ==
    IF i > Len(new_files) THEN [ok |-> TRUE, events |-> events]
    ELSE LET snap == FileAt(files, new_files[i])
         IN IF ~snap.ok THEN [ok |-> FALSE, events |-> events]
            ELSE FoldFiles(files, new_files, i + 1,
                           FoldSnapshot(events, prev, snap), Range(snap.active))

\* (mutant) starts with an empty previously_active_ids
process_files_noprev(files, new_files, existing_data) ==
    FoldFiles(files, new_files, 1, existing_data, {})

process_files(files, new_files, existing_data) ==
    FoldFiles(files, new_files, 1, existing_data, Range(existing_data.keys))

\* ---- serializer ---------------------------------------------------------
format_full_history_body(ev) ==
    LET history == ev.detail_history
    IN IF history = <<>> THEN [id |-> ev.id, latest |-> 0, updates |-> <<>>]
       ELSE [id |-> ev.id, latest |-> Last(history).details,
             updates |-> IF Len(history) > 1 THEN Reverse(history) ELSE <<>>]

WithBody(ev) ==
    [id |-> ev.id, start |-> ev.start, end |-> ev.end,
     detail_history |-> ev.detail_history, body |-> format_full_history_body(ev)]

\* for event in events.values(): event["extendedProps"]["body"] = ...
SetBodies(events) ==
    [events EXCEPT !.val = [x \in DOMAIN events.val |-> WithBody(events.val[x])]]

\* JSON encoding of an optional timestamp: None <-> null
JsonOfEnd(end) ==
    IF end = None THEN [t |-> "null", v |-> 0] ELSE [t |-> "string", v |-> end[1]]

EndOfJson(j) == IF j.t = "null" THEN None ELSE Some(j.v)

JsonOfEvent(ev) == [ev EXCEPT !.end = JsonOfEnd(ev.end)]

EventOfJson(j) == [j EXCEPT !.end = EndOfJson(j.end)]

\* "events": list(events.values())
EventList(events) ==
    [i \in 1..Len(events.keys) |-> JsonOfEvent(events.val[events.keys[i]])]

\* (mutant) the checkpoint is the first file of the batch
OutputDataFirst(new_files, events) ==
    [kind |-> "json", lastProcessedFile |-> new_files[1], events |-> EventList(events)]

\* output_data as json.dump writes it
OutputData(new_files, events) ==
    [kind |-> "json", lastProcessedFile |-> Last(new_files), events |-> EventList(events)]

Absent == [kind |-> "absent"]
\* the file after open(OUTAGES_JSON, "w") and before json.dump has finished
Torn == [kind |-> "torn"]
\* a JSON object without "lastProcessedFile" or without "events"
NoMarker == [kind |-> "nomarker"]
\* well-formed JSON that is not an object, such as [] or null
NonObject == [kind |-> "nonobject"]

\* ---- resume -------------------------------------------------------------
\* {event['id']: event for event in data['events']}
RECURSIVE EventsDict(_, _, _)
EventsDict(list, i, acc) ==
    IF i > Len(list) THEN acc
    ELSE EventsDict(list, i + 1, PutEvent(acc, list[i].id, EventOfJson(list[i])))

\* (mutant) tests data.get("events") for truth instead of "events" in data
get_last_processed_file_truthy(art) ==
    IF art.kind = "absent" THEN <<None, EmptyEvents>>
    ELSE IF art.kind = "torn" THEN <<None, EmptyEvents>>
    ELSE IF art.kind = "nomarker" THEN <<None, EmptyEvents>>
    ELSE IF art.events = <<>> THEN <<None, EmptyEvents>>
    ELSE <<Some(art.lastProcessedFile), EventsDict(art.events, 1, EmptyEvents)>>

\* data.get on a value that is no dict raises AttributeError, which the
\* except clause (JSONDecodeError, FileNotFoundError) does not catch
ResumeRaises(art) == art.kind = "nonobject"

get_last_processed_file(art) ==
    IF art.kind = "absent" THEN <<None, EmptyEvents>>
    ELSE IF art.kind = "torn" THEN <<None, EmptyEvents>>
    ELSE IF art.kind = "nomarker" THEN <<None, EmptyEvents>>
    ELSE <<Some(art.lastProcessedFile), EventsDict(art.events, 1, EmptyEvents)>>

\* (mutant) the slice starts at the checkpointed file itself
RECURSIVE SliceFrom(_, _, _)
SliceFrom(all_files, last, i) ==
    IF i > Len(all_files) THEN all_files
    ELSE IF all_files[i] = last THEN SubSeq(all_files, i, Len(all_files))
    ELSE SliceFrom(all_files, last, i + 1)

\* (mutant) a checkpoint that is not found leaves nothing to process
RECURSIVE SliceOrNothing(_, _, _)
SliceOrNothing(all_files, last, i) ==
    IF i > Len(all_files) THEN <<>>
    ELSE IF all_files[i] = last THEN SubSeq(all_files, i + 1, Len(all_files))
    ELSE SliceOrNothing(all_files, last, i + 1)

\* the slice of all_files after the first element equal to last
RECURSIVE SliceAfter(_, _, _)
SliceAfter(all_files, last, i) ==
    IF i > Len(all_files) THEN all_files
    ELSE IF all_files[i] = last THEN SubSeq(all_files, i + 1, Len(all_files))
    ELSE SliceAfter(all_files, last, i + 1)

find_new_files(last_processed_file, files) ==
    IF last_processed_file = None THEN AllFiles(files)
    ELSE SliceAfter(AllFiles(files), last_processed_file[1], 1)

\* ---- timestamp normalisation ---------------------------------------------
\* A string is a sequence of characters; "0" stands for any character
\* other than the two separators.
DateLen == 10
MaxStampLen == 12
MaxApply == 2

Min2(a, b) == IF a <= b THEN a ELSE b

\* str.replace('-', ':') : every hyphen becomes a colon
ReplaceAll(str) == [i \in 1..Len(str) |-> IF str[i] = "-" THEN ":" ELSE str[i]]

\* str.replace('-', ':', 1) : only the leftmost hyphen becomes a colon
ReplaceFirst(str) ==
    [i \in 1..Len(str) |->
        IF str[i] = "-" /\ \A j \in 1..(i - 1) : str[j] # "-" THEN ":" ELSE str[i]]

\* (mutant) replaces one hyphen of the time part per application
NormalizeOnce(str) ==
    SubSeq(str, 1, Min2(DateLen, Len(str)))
        \o ReplaceFirst(SubSeq(str, DateLen + 1, Len(str)))

\* timestamp_str[:10] + timestamp_str[10:].replace('-', ':')
Normalize(str) ==
    SubSeq(str, 1, Min2(DateLen, Len(str)))
        \o ReplaceAll(SubSeq(str, DateLen + 1, Len(str)))

\* ---- the program --------------------------------------------------------
\* no run is in progress: the process holds nothing
NoMem == [new_files |-> <<>>, events |-> EmptyEvents]

NoRun == [ckpt |-> None, files |-> <<>>, result |-> "none"]

\* ---- rebuild_video.py ---------------------------------------------------
MaxFrame == 3

\* the chunk is rendered at 8 frames per second; durations are counted in
\* frame periods of 1/8 s, so the tolerance of 0.5 s is 4 of them
Tolerance == 4
\* expected_frames = -1 disables the check of a run
Disabled == -1

\* what ffprobe reports of a video file
Video(n, d) == [nb_frames |-> n, duration |-> d]

Abs(x) == IF x < 0 THEN 0 - x ELSE x

\* what ffmpeg can leave behind when it renders or concatenates n frames
\* lasting d periods and exits with status 0: the faithful video, one
\* that lacks a frame, and either with a duration off by more than the
\* tolerance
Rendered(n, d) ==
    {Video(f, e) : f \in {n, n - 1} \cap Nat, e \in {d, d + Tolerance + 1}}

\* nothing in frames/, no master video, no run of the script yet
NoVideo ==
    [pc |-> "idle", frames |-> {}, next |-> 1, master |-> None,
     files_to_process |-> {}, chunk |-> None, temp_master |-> None,
     expected_frames |-> 0, expected_duration |-> 0, result |-> "none"]

\* no timestamp string read yet
NoStamp == [raw |-> <<>>, out |-> None, times |-> 0]

Init ==
    /\ store = {}
    /\ clock = 0
    /\ artifact = Absent
    /\ pc = "idle"
    /\ mem = NoMem
    /\ run = NoRun
    /\ stamp = NoStamp
    /\ video = NoVideo

\* capture.py writes one more snapshot file, named by the current time.
\* What a run writes is fixed once it has listed the store, so a capture
\* during its write is the same capture taken right after it.
Capture ==
    /\ pc = "idle"
    /\ clock < MaxKey
    /\ \E s \in SnapshotsAt(clock + 1) : store' = store \cup {s}
    /\ clock' = clock + 1
    /\ UNCHANGED <<artifact, pc, mem, run, stamp, video>>

\* a snapshot file disappears from data/history
DeleteSnapshot ==
    /\ pc = "idle"
    /\ \E s \in store : store' = store \ {s}
    /\ UNCHANGED <<clock, artifact, pc, mem, run, stamp, video>>

\* main() up to and including open(OUTAGES_JSON, "w")
Main ==
    /\ pc = "idle"
    /\ LET loaded    == get_last_processed_file(artifact)
           new_files == find_new_files(loaded[1], store)
           folded    == process_files(store, new_files, loaded[2])
           this      == [ckpt |-> loaded[1], files |-> new_files, result |-> "noop"]
       IN IF ResumeRaises(artifact)
          THEN /\ run' = [ckpt |-> None, files |-> <<>>, result |-> "crashed"]
               /\ UNCHANGED <<artifact, pc, mem>>
          ELSE IF new_files = <<>>
          THEN /\ run' = this
               /\ UNCHANGED <<artifact, pc, mem>>
          ELSE IF ~folded.ok
          THEN /\ run' = [this EXCEPT !.result = "aborted"]
               /\ UNCHANGED <<artifact, pc, mem>>
          ELSE /\ run' = [this EXCEPT !.result = "writing"]
               /\ mem' = [new_files |-> new_files, events |-> SetBodies(folded.events)]
               /\ artifact' = Torn
               /\ pc' = "writing"
    /\ UNCHANGED <<store, clock, stamp, video>>

\* json.dump and the close of the file complete
WriteDone ==
    /\ pc = "writing"
    /\ artifact' = OutputData(mem.new_files, mem.events)
    /\ pc' = "idle"
    /\ mem' = NoMem
    /\ run' = [run EXCEPT !.result = "ok"]
    /\ UNCHANGED <<store, clock, stamp, video>>

\* the process is killed, or the write fails, inside json.dump
Interrupt ==
    /\ pc = "writing"
    /\ pc' = "idle"
    /\ mem' = NoMem
    /\ run' = [run EXCEPT !.result = "interrupted"]
    /\ UNCHANGED <<store, clock, artifact, stamp, video>>

\* the store is append-only
Next == Capture \/ Main \/ WriteDone \/ Interrupt

Spec == Init /\ [][Next]_vars

\* snapshot files may also be deleted
NextDel == Capture \/ DeleteSnapshot \/ Main \/ WriteDone \/ Interrupt

SpecDel == Init /\ [][NextDel]_vars

\* the first run finds a file of unknown origin in place of the artifact
InitDamage ==
    /\ store = {}
    /\ clock = 0
    /\ artifact \in {Absent, Torn, NoMarker, NonObject}
    /\ pc = "idle"
    /\ mem = NoMem
    /\ run = NoRun
    /\ stamp = NoStamp
    /\ video = NoVideo

SpecDamage == InitDamage /\ [][Next]_vars

\* data["timestamp"] is read one character longer; the date part of the
\* strings considered holds no colon
ReadStamp ==
    /\ Len(stamp.raw) < MaxStampLen
    /\ \E c \in {"0", "-", ":"} :
          /\ (Len(stamp.raw) < DateLen => c # ":")
          /\ stamp' = [raw |-> Append(stamp.raw, c), out |-> None, times |-> 0]
    /\ UNCHANGED <<store, clock, artifact, pc, mem, run, video>>

\* the string read is normalised
NormalizeStamp ==
    /\ stamp.out = None
    /\ stamp' = [stamp EXCEPT !.out = Some(Normalize(stamp.raw)), !.times = 1]
    /\ UNCHANGED <<store, clock, artifact, pc, mem, run, video>>

\* the normalised string is taken for a timestamp and normalised again
RenormalizeStamp ==
    /\ stamp.out # None
    /\ stamp.times < MaxApply
    /\ stamp' = [stamp EXCEPT !.out = Some(Normalize(stamp.out[1])),
                              !.times = stamp.times + 1]
    /\ UNCHANGED <<store, clock, artifact, pc, mem, run, video>>

NextStamp == ReadStamp \/ NormalizeStamp \/ RenormalizeStamp

SpecStamp == Init /\ [][NextStamp]_vars

\* capture.py writes a snapshot whose outageList may hold non-active entities
CaptureAll ==
    /\ pc = "idle"
    /\ clock < MaxKey
    /\ \E s \in SnapshotsAllAt(clock + 1) : store' = store \cup {s}
    /\ clock' = clock + 1
    /\ UNCHANGED <<artifact, pc, mem, run, stamp, video>>

\* runs over such snapshots whose writes complete
NextAll == CaptureAll \/ Main \/ WriteDone

SpecAll == Init /\ [][NextAll]_vars

\* ---- rebuild_video.py: main() --------------------------------------------
\* locals of a run of rebuild_video.py that has ended
EndVideoRun(v, result) ==
    [v EXCEPT !.pc = "idle", !.files_to_process = {}, !.chunk = None,
              !.expected_frames = 0, !.expected_duration = 0,
              !.result = result]

\* the capture workflow saves one more PNG into frames/
AddFrame ==
    /\ video.next <= MaxFrame
    /\ video' = [video EXCEPT !.frames = video.frames \cup {video.next},
                              !.next = video.next + 1]
    /\ UNCHANGED <<store, clock, artifact, pc, mem, run, stamp>>

\* glob of frames/*.png, stamping of every frame, rendering of the chunk
RenderChunk ==
    /\ video.pc = "idle"
    /\ LET files == video.frames
           n     == Cardinality(files)
       IN IF files = {}
          THEN video' = [video EXCEPT !.result = "noframes"]
          ELSE \/ video' = EndVideoRun(video, "failed")
               \/ \E c \in Rendered(n, n) :
                     video' = [video EXCEPT !.pc = "predict",
                                            !.files_to_process = files,
                                            !.chunk = Some(c),
                                            !.result = "running"]
    /\ UNCHANGED <<store, clock, artifact, pc, mem, run, stamp>>

\* prediction of the properties of the new master: the old master's, when
\* it exists and its probe succeeds, plus one frame period per new frame
PredictExpected ==
    /\ video.pc = "predict"
    /\ LET n == Cardinality(video.files_to_process)
       IN IF video.master = None
          THEN video' = [video EXCEPT !.pc = "stitch",
                                      !.expected_frames = n,
                                      !.expected_duration = n]
          ELSE \/ video' = [video EXCEPT
                               !.pc = "stitch",
                               !.expected_frames = video.master[1].nb_frames + n,
                               !.expected_duration = video.master[1].duration + n]
               \/ video' = [video EXCEPT !.pc = "stitch",
                                         !.expected_frames = Disabled]
    /\ UNCHANGED <<store, clock, artifact, pc, mem, run, stamp>>

\* the chunk is appended to the old master into temp_master.mp4, or moved
\* there when no master exists
Stitch ==
    /\ video.pc = "stitch"
    /\ IF video.master = None
       THEN video' = [video EXCEPT !.pc = "verify",
                                   !.temp_master = video.chunk,
                                   !.chunk = None]
       ELSE \/ video' = EndVideoRun(video, "failed")
            \/ \E t \in Rendered(video.master[1].nb_frames + video.chunk[1].nb_frames,
                                 video.master[1].duration + video.chunk[1].duration) :
                  video' = [video EXCEPT !.pc = "verify", !.temp_master = Some(t)]
    /\ UNCHANGED <<store, clock, artifact, pc, mem, run, stamp>>

\* the comparison of line 184 raises
VerificationFails(v) ==
    /\ v.expected_frames # Disabled
    /\ \/ v.temp_master[1].nb_frames # v.expected_frames
       \/ Abs(v.temp_master[1].duration - v.expected_duration) > Tolerance

\* probe of temp_master.mp4, comparison with the prediction, replacement
\* of the master and deletion of the frames of this run
VerifyAndCleanup ==
    /\ video.pc = "verify"
    /\ \/ video' = EndVideoRun(video, "failed")
       \/ IF VerificationFails(video)
          THEN video' = EndVideoRun(video, "failed")
          ELSE video' = [EndVideoRun(video, "ok") EXCEPT
                            !.master = video.temp_master,
                            !.temp_master = None,
                            !.frames = video.frames \ video.files_to_process]
    /\ UNCHANGED <<store, clock, artifact, pc, mem, run, stamp>>

NextVideo == AddFrame \/ RenderChunk \/ PredictExpected \/ Stitch \/ VerifyAndCleanup

SpecVideo == Init /\ [][NextVideo]_vars

\* ---- vocabulary of the properties ---------------------------------------
Persisted == artifact.kind = "json"

\* the snapshots of the store with key at most k, and those after it
UpTo(k) == {s \in store : s.key <= k}

\* the snapshots a run started now has to fold: those strictly after the
\* persisted checkpoint, all of them when there is none
Unprocessed ==
    IF Persisted THEN {s \in store : s.key > artifact.lastProcessedFile} ELSE store

\* the persisted events with id i
EventsOf(i) == {n \in DOMAIN artifact.events : artifact.events[n].id = i}

\* ---- C1 -----------------------------------------------------------------
\* C1 (resumability): whatever runs produced it, the persisted artifact
\* with checkpoint k equals the artifact of one single run over the
\* snapshots S1..Sk folded from an empty prior state.
C1_Resumable ==
    Persisted =>
        LET prefix == UpTo(artifact.lastProcessedFile)
            single == process_files(prefix, AllFiles(prefix), EmptyEvents)
        IN /\ single.ok
           /\ artifact = OutputData(AllFiles(prefix), SetBodies(single.events))

\* a run resumed from checkpoint 1 has folded two more snapshots and ended
\* an event that the first run left open
C1_Witness ==
    /\ Persisted
    /\ run.result = "ok"
    /\ run.ckpt = Some(1)
    /\ Len(run.files) = 2
    /\ \E n \in DOMAIN artifact.events :
          /\ artifact.events[n].start = 1
          /\ artifact.events[n].end.t = "string"
          /\ artifact.events[n].end.v > 1

\* ---- C2 -----------------------------------------------------------------
\* C2 (fatal on corruption): a run whose unprocessed batch holds a snapshot
\* that does not parse leaves the artifact exactly as it was and writes
\* nothing.
C2_FatalOnCorruption ==
    [][(Main /\ \E s \in Unprocessed : ~s.ok)
          => (artifact' = artifact /\ pc' = "idle")]_vars

\* a run aborted at the second file of its batch, over an earlier artifact
C2_Witness ==
    /\ Persisted
    /\ run.result = "aborted"
    /\ Len(run.files) = 2
    /\ FileAt(store, run.files[1]).ok
    /\ ~FileAt(store, run.files[2]).ok
    /\ artifact.lastProcessedFile = 1

\* ---- C3 -----------------------------------------------------------------
\* C3 (atomic artifact write): no reader ever finds the artifact partially
\* written, and an interrupted write leaves the previous artifact intact.
C3_AtomicWrite == artifact.kind # "torn"

\* ---- C4 -----------------------------------------------------------------
\* C4 (idempotence): a run started when the store holds no snapshot newer
\* than the persisted checkpoint leaves the artifact identical.
C4_Idempotent ==
    [][(Main /\ Persisted /\ \A s \in store : s.key <= artifact.lastProcessedFile)
          => artifact' = artifact]_vars

\* a run found nothing new behind a checkpoint that carries events
C4_Witness ==
    /\ Persisted
    /\ run.result = "noop"
    /\ run.ckpt = Some(artifact.lastProcessedFile)
    /\ artifact.events # <<>>
    /\ \A s \in store : s.key <= artifact.lastProcessedFile

\* ---- C5 -----------------------------------------------------------------
\* C5 (round trip): when the serializer has written the artifact, the
\* resume step reads back the checkpoint and exactly the event mapping
\* that was serialized.
C5_RoundTrip ==
    [][(pc = "writing" /\ Persisted')
          => get_last_processed_file(artifact')
                = <<Some(Last(mem.new_files)), mem.events>>]_vars

\* a written artifact holding an ongoing event and an event without history
C5_Witness ==
    /\ Persisted
    /\ run.result = "ok"
    /\ \E n \in DOMAIN artifact.events : artifact.events[n].end.t = "null"
    /\ \E n \in DOMAIN artifact.events : artifact.events[n].detail_history = <<>>
    /\ \E n \in DOMAIN artifact.events : artifact.events[n].end.t = "string"

\* ---- C6 -----------------------------------------------------------------
\* C6: every persisted event whose end is set has start <= end, after any
\* sequence of runs, resumed or reprocessing everything.
C6_StartLeEnd ==
    Persisted =>
        \A n \in DOMAIN artifact.events :
            artifact.events[n].end.t = "string"
                => artifact.events[n].start <= artifact.events[n].end.v

\* ---- C7 -----------------------------------------------------------------
\* C7: the checkpoint a successful run persists is at least the checkpoint
\* it found, which the previous successful run had persisted.
C7_Monotone ==
    (Persisted /\ run.result = "ok" /\ run.ckpt # None)
        => artifact.lastProcessedFile >= run.ckpt[1]

\* ---- C8 -----------------------------------------------------------------
NoEqualNeighbours(history) ==
    \A j \in 1..(Len(history) - 1) : history[j].details # history[j + 1].details

\* C8: no history, persisted or held by a running process, has two
\* consecutive entries with equal payloads.
C8_NoConsecutiveEqual ==
    /\ Persisted =>
          \A n \in DOMAIN artifact.events :
              NoEqualNeighbours(artifact.events[n].detail_history)
    /\ \A i \in DOMAIN mem.events.val :
          NoEqualNeighbours(mem.events.val[i].detail_history)

\* an entity observed with a payload in three folded snapshots has a
\* history of two entries
C8_Witness ==
    /\ Persisted
    /\ \E n \in DOMAIN artifact.events :
          LET e == artifact.events[n]
          IN /\ Len(e.detail_history) = 2
             /\ Cardinality({s \in UpTo(artifact.lastProcessedFile) :
                   e.id \in Range(s.active) /\ s.details[e.id] # 0}) = 3

\* ---- C9 -----------------------------------------------------------------
\* the payloads observed for id i in the snapshots with the keys ks[n..],
\* each with the timestamp of its snapshot
RECURSIVE Observed(_, _, _)
Observed(i, ks, n) ==
    IF n > Len(ks) THEN <<>>
    ELSE LET s == FileAt(store, ks[n])
         IN (IF i \in Range(s.active) /\ s.details[i] # 0
             THEN <<[capture_ts |-> s.key, details |-> s.details[i]]>>
             ELSE <<>>) \o Observed(i, ks, n + 1)

\* each run of consecutive equal payloads collapsed to its first element
RECURSIVE Collapse(_, _)
Collapse(obs, j) ==
    IF j > Len(obs) THEN <<>>
    ELSE (IF j = 1 \/ obs[j].details # obs[j - 1].details THEN <<obs[j]>> ELSE <<>>)
            \o Collapse(obs, j + 1)

\* C9 (history accumulation): the history of every persisted event is the
\* sequence of payloads observed for its id in the folded snapshots, each
\* run of equal payloads collapsed to one entry stamped with the first
\* snapshot of the run; snapshots without a payload contribute nothing.
C9_HistoryAccumulation ==
    Persisted =>
        \A n \in DOMAIN artifact.events :
            artifact.events[n].detail_history =
                Collapse(Observed(artifact.events[n].id,
                                  AllFiles(UpTo(artifact.lastProcessedFile)), 1), 1)

\* P1 at T1, P1 again at T2, P2 at T3 gave [(T1,P1), (T3,P2)]
C9_Witness ==
    /\ Persisted
    /\ artifact.lastProcessedFile = 3
    /\ \E n \in DOMAIN artifact.events :
          LET e == artifact.events[n]
          IN /\ e.detail_history = <<[capture_ts |-> 1, details |-> 1],
                                     [capture_ts |-> 3, details |-> 2]>>
             /\ FileAt(store, 1).details[e.id] = 1
             /\ FileAt(store, 2).details[e.id] = 1
             /\ FileAt(store, 3).details[e.id] = 2

\* ---- C10 ----------------------------------------------------------------
\* the store is T1={A}, T2={}, T3={A}
ReappearStore ==
    /\ {s.key : s \in store} = {1, 2, 3}
    /\ \A s \in store : s.ok
    /\ FileAt(store, 1).active = <<"A">>
    /\ FileAt(store, 2).active = <<>>
    /\ FileAt(store, 3).active = <<"A">>

ReappearFolded ==
    (Persisted /\ artifact.lastProcessedFile = 3 /\ ReappearStore)
        => /\ Cardinality(EventsOf("A")) = 1
           /\ \A n \in EventsOf("A") :
                 /\ artifact.events[n].start = 1
                 /\ artifact.events[n].end = [t |-> "string", v |-> 2]

OncePerId == Persisted => \A i \in Ids : Cardinality(EventsOf(i)) <= 1

\* a run that loads an ended event hands it to the serializer once, with
\* the same start and end
EndedKept ==
    (Main /\ Persisted /\ pc' = "writing") =>
        \A n \in DOMAIN artifact.events :
            LET e == artifact.events[n]
            IN e.end.t = "string" =>
                  /\ Cardinality({m \in DOMAIN mem'.events.keys :
                                     mem'.events.keys[m] = e.id}) = 1
                  /\ mem'.events.val[e.id].start = e.start
                  /\ mem'.events.val[e.id].end = Some(e.end.v)

\* the serializer persists start and end of every event as the run holds them
EndedWritten ==
    (pc = "writing" /\ Persisted') =>
        \A i \in DOMAIN mem.events.val :
            \E n \in DOMAIN artifact'.events :
                /\ artifact'.events[n].id = i
                /\ artifact'.events[n].start = mem.events.val[i].start
                /\ artifact'.events[n].end = JsonOfEnd(mem.events.val[i].end)

\* C10 (no reopening): T1={A}, T2={}, T3={A} gives one event for A with
\* start T1 and end T2; an id never has two events; an event whose end is
\* set keeps its start and end through every later run.
C10_NoReopening ==
    /\ [](ReappearFolded /\ OncePerId)
    /\ [][EndedKept /\ EndedWritten]_vars

\* A reappeared at T3, folded by a later run than the one that ended it
C10_Witness ==
    /\ Persisted
    /\ artifact.lastProcessedFile = 3
    /\ ReappearStore
    /\ run.result = "ok"
    /\ run.ckpt = Some(2)
    /\ \E n \in EventsOf("A") : artifact.events[n].end = [t |-> "string", v |-> 2]

\* ---- C11 ----------------------------------------------------------------
\* C11 (safe degradation of resume): a run that finds the artifact missing,
\* unreadable, malformed or without checkpoint and event list does not
\* abort; it resumes from (no checkpoint, empty mapping) and takes every
\* snapshot of the store.
C11_SafeDegradation ==
    [][(Main /\ ~Persisted)
          => /\ run'.result # "crashed"
             /\ run'.ckpt = None
             /\ run'.files = AllFiles(store)]_vars

\* ---- C12 ----------------------------------------------------------------
Ascending(f) == \A i \in 1..(Len(f) - 1) : f[i] < f[i + 1]

StoreKeys == {s.key : s \in store}

\* the persisted checkpoint names no snapshot of the store
CheckpointLost == Persisted /\ artifact.lastProcessedFile \notin StoreKeys

\* C12 (checkpoint not found): a run whose checkpoint matches no key of the
\* store does not fail on that account; it takes every snapshot of the
\* store in ascending key order and, when they all parse, goes on to write.
C12_CheckpointNotFound ==
    [][(Main /\ CheckpointLost)
          => /\ run'.result # "crashed"
             /\ Ascending(run'.files)
             /\ Range(run'.files) = StoreKeys
             /\ (store # {} /\ \A s \in store : s.ok)
                   => (pc' = "writing" /\ mem'.new_files = run'.files)]_vars

\* a completed run refolded snapshots older than the checkpoint it had lost
C12_Witness ==
    /\ run.result = "ok"
    /\ run.ckpt # None
    /\ run.ckpt[1] \notin StoreKeys
    /\ Len(run.files) = 2
    /\ Last(run.files) < run.ckpt[1]

\* ---- C13 ----------------------------------------------------------------
\* the keys of the folded snapshots after k in which id i is not active
AbsentAfter(i, k) ==
    {s.key : s \in {t \in UpTo(artifact.lastProcessedFile) :
                        t.key > k /\ i \notin Range(t.active)}}

Min(S) == CHOOSE x \in S : \A y \in S : x <= y

\* C13 (end inference): the end of a persisted event is the timestamp of
\* the first folded snapshot after its creation in which its id is not
\* active, and null while there is none.
C13_EndInference ==
    Persisted =>
        \A n \in DOMAIN artifact.events :
            LET e == artifact.events[n]
                gone == AbsentAfter(e.id, e.start)
            IN e.end = IF gone = {} THEN [t |-> "null", v |-> 0]
                       ELSE [t |-> "string", v |-> Min(gone)]

\* an id appeared and disappeared within the batch of one run
C13_Witness ==
    /\ Persisted
    /\ run.result = "ok"
    /\ Len(run.files) = 3
    /\ \E n \in DOMAIN artifact.events :
          /\ artifact.events[n].start = 2
          /\ artifact.events[n].end = [t |-> "string", v |-> 3]

\* ---- C14 ----------------------------------------------------------------
\* the folded snapshots in which id i is active
SeenIn(i) ==
    {s.key : s \in {t \in UpTo(artifact.lastProcessedFile) : i \in Range(t.active)}}

\* while no snapshot has been deleted, start is the first sighting
StartIsFirstSeen ==
    (Persisted /\ StoreKeys = 1..clock) =>
        \A n \in DOMAIN artifact.events :
            artifact.events[n].start = Min(SeenIn(artifact.events[n].id))

\* a run hands every loaded event on with the start it had
StartKept ==
    (Main /\ Persisted /\ pc' = "writing") =>
        \A n \in DOMAIN artifact.events :
            mem'.events.val[artifact.events[n].id].start = artifact.events[n].start

\* the serializer writes every start as the run holds it
StartWritten ==
    (pc = "writing" /\ Persisted') =>
        \A n \in DOMAIN artifact'.events :
            artifact'.events[n].start = mem.events.val[artifact'.events[n].id].start

\* C14 (start is immutable): start is the timestamp of the first snapshot
\* in which the id was seen, and no later run, resumed or reprocessing
\* everything, changes the start of an event it loaded.
C14_StartImmutable ==
    /\ []StartIsFirstSeen
    /\ [][StartKept /\ StartWritten]_vars

\* a later run folded a snapshot in which an id seen at T1 is active again
C14_Witness ==
    /\ Persisted
    /\ run.result = "ok"
    /\ run.ckpt = Some(2)
    /\ run.files = <<3>>
    /\ {2, 3} \subseteq StoreKeys
    /\ \E n \in DOMAIN artifact.events :
          /\ artifact.events[n].start = 1
          /\ artifact.events[n].id \in Range(FileAt(store, 3).active)
          /\ artifact.events[n].id \notin Range(FileAt(store, 2).active)

\* ---- C15 ----------------------------------------------------------------
\* C15 (normalisation is idempotent): normalising a string that came out
\* of the normalisation returns it unchanged, however often it is applied.
C15_NormalizeIdempotent ==
    /\ stamp.out # None => Normalize(stamp.out[1]) = stamp.out[1]
    /\ [][RenormalizeStamp => stamp'.out = stamp.out]_vars

\* a string of the old format, hyphens in the time part, was normalised twice
C15_Witness ==
    /\ stamp.times = 2
    /\ Len(stamp.raw) = DateLen + 2
    /\ stamp.raw[DateLen - 1] = "-"
    /\ stamp.raw[DateLen + 1] = "-"
    /\ stamp.raw[DateLen + 2] = "-"
    /\ stamp.out[1][DateLen - 1] = "-"
    /\ stamp.out[1][DateLen + 1] = ":"
    /\ stamp.out[1][DateLen + 2] = ":"

\* ---- C16 ----------------------------------------------------------------
\* a run that finds an intact artifact takes exactly the snapshots after
\* its checkpoint, in ascending key order
TakesTail ==
    (Main /\ Persisted) =>
        /\ Ascending(run'.files)
        /\ Range(run'.files) = {k \in StoreKeys : k > artifact.lastProcessedFile}
        /\ pc' = "writing" => mem'.new_files = run'.files

\* the batch of a completed resumed run is exactly what lies between the
\* checkpoint it found and the checkpoint it wrote: batches of successive
\* runs neither overlap nor leave a gap
BatchesTile ==
    (Persisted /\ run.result = "ok" /\ run.ckpt # None) =>
        Range(run.files) =
            {k \in StoreKeys : k > run.ckpt[1] /\ k <= artifact.lastProcessedFile}

\* C16 (exactly-once ordered folding): over an append-only store with an
\* intact artifact every run folds exactly the snapshots strictly after
\* the checkpoint, ascending, so each snapshot is folded once and none is
\* skipped.
C16_ExactlyOnce ==
    /\ []BatchesTile
    /\ [][TakesTail]_vars

\* a resumed run folded S2 and S3 behind checkpoint S1
C16_Witness ==
    /\ Persisted
    /\ run.result = "ok"
    /\ run.ckpt = Some(1)
    /\ run.files = <<2, 3>>
    /\ artifact.lastProcessedFile = 3

\* ---- C17 ----------------------------------------------------------------
\* C17 (checkpoint advance): a successful run that folded snapshots
\* persists the key of the last one it folded, the greatest of its batch;
\* a run that folds none leaves the artifact and its checkpoint unchanged.
C17_CheckpointIsLastFolded ==
    /\ [](run.result = "ok" =>
            /\ Persisted
            /\ artifact.lastProcessedFile = Last(run.files)
            /\ \A k \in Range(run.files) : k <= artifact.lastProcessedFile)
    /\ [][(Main /\ run'.files = <<>>) => artifact' = artifact]_vars

\* the first run folded S1 and S2 and persisted S2
C17_Witness ==
    /\ Persisted
    /\ run.result = "ok"
    /\ run.ckpt = None
    /\ run.files = <<1, 2>>
    /\ artifact.lastProcessedFile = 2

\* ---- C18 ----------------------------------------------------------------
\* what was observed for the event at position n of the persisted list
ObservedFor(n) ==
    Observed(artifact.events[n].id, AllFiles(UpTo(artifact.lastProcessedFile)), 1)

\* the number of payload changes in obs, the first observation included
Changes(obs) ==
    Cardinality({j \in 1..Len(obs) : j = 1 \/ obs[j].details # obs[j - 1].details})

\* C18 as claimed: no history is longer than the number of distinct
\* payloads observed for its entity.
C18_DistinctBound ==
    Persisted =>
        \A n \in DOMAIN artifact.events :
            Len(artifact.events[n].detail_history)
                <= Cardinality({ObservedFor(n)[j].details : j \in DOMAIN ObservedFor(n)})

\* C18 as amended: the length of a history is the number of payload
\* changes observed for its entity (one entry per change, a payload that
\* returns counts again), and so never exceeds the number of snapshots
\* that carried a payload for it.
C18_ChangeBound ==
    Persisted =>
        \A n \in DOMAIN artifact.events :
            /\ Len(artifact.events[n].detail_history) = Changes(ObservedFor(n))
            /\ Len(artifact.events[n].detail_history) <= Len(ObservedFor(n))

\* P1, P2, P1 gave three entries for two distinct payloads
C18_Witness ==
    /\ Persisted
    /\ \E n \in DOMAIN artifact.events :
          LET h == artifact.events[n].detail_history
          IN /\ Len(h) = 3
             /\ h[1].details = h[3].details
             /\ Len(ObservedFor(n)) = 3

\* ---- C19 ----------------------------------------------------------------
\* the folded snapshots in which entity i is present, active or not
PresentIn(i) ==
    {s.key : s \in {t \in UpTo(artifact.lastProcessedFile) :
                        i \in Range(t.active) \cup t.others}}

\* C19 (creation covers every entity): every entity present in a folded
\* snapshot, active or not, has an event, created with the timestamp of
\* the first snapshot that holds it.
C19_CreationCoversAll ==
    Persisted =>
        \A i \in Ids :
            PresentIn(i) # {} =>
                \E n \in DOMAIN artifact.events :
                    /\ artifact.events[n].id = i
                    /\ artifact.events[n].start = Min(PresentIn(i))

\* ---- C20 ----------------------------------------------------------------
\* the ids active in the last snapshot folded into the artifact
LastActive == Range(FileAt(store, artifact.lastProcessedFile).active)

\* C20 (no lost end-times): in every persisted artifact an event without
\* end has its id active in the last snapshot folded, so every event whose
\* id that snapshot lacks has an end, after first runs and resumed runs.
C20_NoLostEnd ==
    Persisted =>
        \A n \in DOMAIN artifact.events :
            artifact.events[n].end.t = "null" => artifact.events[n].id \in LastActive

\* a resumed run ended one event and left another, still active, open
C20_Witness ==
    /\ Persisted
    /\ run.result = "ok"
    /\ run.ckpt = Some(2)
    /\ run.files = <<3>>
    /\ \E n \in DOMAIN artifact.events :
          /\ artifact.events[n].end = [t |-> "string", v |-> 3]
          /\ artifact.events[n].id \notin LastActive
    /\ \E n \in DOMAIN artifact.events :
          /\ artifact.events[n].end.t = "null"
          /\ artifact.events[n].start < 3


\* ---- C21 ----------------------------------------------------------------
\* the capture timestamps of a history never decrease and none precedes
\* the start of its event
HistoryOrdered(ev) ==
    /\ \A j \in 1..(Len(ev.detail_history) - 1) :
          ev.detail_history[j].capture_ts <= ev.detail_history[j + 1].capture_ts
    /\ \A j \in DOMAIN ev.detail_history :
          ev.start <= ev.detail_history[j].capture_ts

\* C21 (full reprocess): a run that does not find its checkpoint in the
\* store hands to the serializer the event mapping that folding the same
\* store from an empty prior state gives, and in it every history is in
\* non-decreasing timestamp order and starts no earlier than its event.
C21_ReprocessFromEmpty ==
    [][(Main /\ CheckpointLost /\ pc' = "writing")
          => /\ mem'.events
                  = SetBodies(process_files(store, AllFiles(store), EmptyEvents).events)
             /\ \A i \in DOMAIN mem'.events.val : HistoryOrdered(mem'.events.val[i])]_vars


\* ---- C22 ----------------------------------------------------------------
\* a run that loads an ended event hands it to the serializer with the
\* same start, end and history
EndedFrozen ==
    (Main /\ Persisted /\ pc' = "writing") =>
        \A n \in DOMAIN artifact.events :
            LET e == artifact.events[n]
            IN e.end.t = "string" =>
                  /\ mem'.events.val[e.id].start = e.start
                  /\ mem'.events.val[e.id].end = Some(e.end.v)
                  /\ mem'.events.val[e.id].detail_history = e.detail_history

\* no persisted history entry is later than the end of its event
HistoryWithinEnd ==
    Persisted =>
        \A n \in DOMAIN artifact.events :
            LET e == artifact.events[n]
            IN e.end.t = "string" =>
                  \A j \in DOMAIN e.detail_history :
                      e.detail_history[j].capture_ts <= e.end.v

\* C22 (ended events are frozen): once the end of an event is set, folding
\* later snapshots, also ones where its id is active again with a new
\* payload, changes no field of it, and no history entry carries a
\* timestamp later than the end of its event.
C22_EndedFrozen ==
    /\ []HistoryWithinEnd
    /\ [][EndedFrozen]_vars


\* ---- C23 ----------------------------------------------------------------
\* the stitched video has been compared with the prediction and matches it
VerifiedMatch ==
    /\ video.pc = "verify"
    /\ video.expected_frames # Disabled
    /\ video.temp_master # None
    /\ video.temp_master[1].nb_frames = video.expected_frames
    /\ Abs(video.temp_master[1].duration - video.expected_duration) <= Tolerance

\* C23 (video rebuild protects the old state): the master video is
\* replaced and source frames are deleted only by a step that has verified
\* the stitched video against the predicted frame count and duration; when
\* the verification fails or is not performed both stay untouched.
C23_VerifiedBeforeReplace ==
    [][(video'.master # video.master \/ ~(video.frames \subseteq video'.frames))
          => VerifiedMatch]_vars

====
